---- MODULE Spec2Model ----
(***************************************************************************)
(* Model of zep_python/models.py: the eight pydantic entities (Session,    *)
(* Summary, Message, Memory, MemorySearchPayload, MemorySearchResult,      *)
(* Document, DocumentCollection), their construction from a keyword        *)
(* mapping, and their serialization with dict()/to_dict().                 *)
(*                                                                         *)
(* The entities derive from pydantic.BaseModel and serialize with .dict(), *)
(* declare defaults with Field(<default>) and leave Optional[...] fields   *)
(* without a default: the pydantic 1.x API.  Field validation is modelled  *)
(* as pydantic 1.x performs it for the declared annotation of each field.  *)
(*                                                                         *)
(* Python values are tagged records.  A float is kept in hundredths        *)
(* (FloatV(12) is 0.12).  A mapping is a function with a string domain.     *)
(* A list that the model mutates in place (Memory.messages) lives in a     *)
(* cell of the heap `lists` and the instance holds a reference to it.      *)
(***************************************************************************)
EXTENDS Integers, Sequences, FiniteSets, TLC

VARIABLES
    lists,   \* heap of list objects: cell 0 is the [] of Memory.messages' Field(default=[])
    cls,     \* single caller: the entity type under construction
    input,   \* single caller: the keyword mapping given to the constructor
    pc,      \* single caller: "start", "built", "failed", "dumped", "rebuilt"
    inst,    \* single caller: what constructing cls from input returned or raised
    wire,    \* single caller: what inst.dict() returned
    back,    \* single caller: what constructing cls from wire returned or raised
    call,    \* concurrent callers: each caller's constructor frame
    insts    \* concurrent callers: the instances constructed so far

vars == <<lists, cls, input, pc, inst, wire, back, call, insts>>

(***************************************************************************)
(* Bounds                                                                  *)
(***************************************************************************)
MaxKeys == 4      \* keys in an input mapping
MaxMsgs == 2      \* messages in a list
MaxParse == 9     \* largest number a numeric string of the inputs denotes
MaxInsts == 2     \* instances the concurrent callers construct

(***************************************************************************)
(* Python values                                                           *)
(***************************************************************************)
NoneV == [t |-> "none"]
StrV(s) == [t |-> "str", s |-> s]
IntV(i) == [t |-> "int", i |-> i]
FloatV(h) == [t |-> "float", h |-> h]
BoolV(b) == [t |-> "bool", b |-> b]
ListV(l) == [t |-> "list", l |-> l]
DictV(d) == [t |-> "dict", d |-> d]
Ref(r) == [t |-> "ref", r |-> r]
Model(c, f) == [t |-> "model", cls |-> c, f |-> f]
ValidationError(c, errs) == [t |-> "error", cls |-> c, errs |-> errs]
Null == [t |-> "unset"]

EmptyMap == <<>>

(* str(float): the shortest decimal text, "0.12", "5.5", "5.0" *)
FloatRepr(h) ==
    LET frac == h % 100
    IN ToString(h \div 100) \o "." \o
       (IF frac % 10 = 0 THEN ToString(frac \div 10)
        ELSE IF frac < 10 THEN "0" \o ToString(frac)
        ELSE ToString(frac))

(* int(str) and float(str) over the decimal texts of 0..MaxParse *)
IsIntText(s) == \E n \in 0..MaxParse : ToString(n) = s
IntOfText(s) == CHOOSE n \in 0..MaxParse : ToString(n) = s
IsFloatText(s) == \E h \in 0..(100 * MaxParse) : FloatRepr(h) = s
FloatOfText(s) == CHOOSE h \in 0..(100 * MaxParse) : FloatRepr(h) = s

Ok(v) == [ok |-> TRUE, v |-> v]
Err == [ok |-> FALSE, v |-> Null]

(***************************************************************************)
(* pydantic's validators for the annotations models.py uses                *)
(***************************************************************************)
(* str: a str is kept; an int, float or bool (a Python int) becomes str(v) *)
str_validator(v) ==
    CASE v.t = "str" -> Ok(v)
      [] v.t = "int" -> Ok(StrV(ToString(v.i)))
      [] v.t = "float" -> Ok(StrV(FloatRepr(v.h)))
      [] v.t = "bool" -> Ok(StrV(IF v.b THEN "True" ELSE "False"))
      [] OTHER -> Err

(* int: an int is kept; anything else goes through int(v) *)
int_validator(v) ==
    CASE v.t = "int" -> Ok(v)
      [] v.t = "bool" -> Ok(IntV(IF v.b THEN 1 ELSE 0))
      [] v.t = "float" -> Ok(IntV(v.h \div 100))
      [] v.t = "str" -> IF IsIntText(v.s) THEN Ok(IntV(IntOfText(v.s))) ELSE Err
      [] OTHER -> Err

(* float: a float is kept; anything else goes through float(v) *)
float_validator(v) ==
    CASE v.t = "float" -> Ok(v)
      [] v.t = "int" -> Ok(FloatV(100 * v.i))
      [] v.t = "bool" -> Ok(FloatV(IF v.b THEN 100 ELSE 0))
      [] v.t = "str" ->
            IF IsIntText(v.s) THEN Ok(FloatV(100 * IntOfText(v.s)))
            ELSE IF IsFloatText(v.s) THEN Ok(FloatV(FloatOfText(v.s)))
            ELSE Err
      [] OTHER -> Err

BOOL_TRUE == {"1", "on", "t", "true", "y", "yes"}
BOOL_FALSE == {"0", "off", "f", "false", "n", "no"}

(* bool: True/False kept; 0, 1 and the texts of BOOL_TRUE/BOOL_FALSE converted *)
bool_validator(v) ==
    CASE v.t = "bool" -> Ok(v)
      [] v.t = "int" -> IF v.i \in {0, 1} THEN Ok(BoolV(v.i = 1)) ELSE Err
      [] v.t = "float" -> IF v.h \in {0, 100} THEN Ok(BoolV(v.h = 100)) ELSE Err
      [] v.t = "str" ->
            IF v.s \in BOOL_TRUE THEN Ok(BoolV(TRUE))
            ELSE IF v.s \in BOOL_FALSE THEN Ok(BoolV(FALSE))
            ELSE Err
      [] OTHER -> Err

(* Dict[str, Any]: a dict is rebuilt key by key with its values untouched;  *)
(* anything else goes through dict(v), which accepts the empty list         *)
dict_validator(v) ==
    CASE v.t = "dict" -> Ok(DictV([k \in DOMAIN v.d |-> v.d[k]]))
      [] v.t = "list" -> IF v.l = <<>> THEN Ok(DictV(EmptyMap)) ELSE Err
      [] OTHER -> Err

(* List[float]: a list whose every element passes float validation *)
list_float_validator(v) ==
    IF v.t # "list" THEN Err
    ELSE IF \E i \in DOMAIN v.l : ~float_validator(v.l[i]).ok THEN Err
    ELSE Ok(ListV([i \in DOMAIN v.l |-> float_validator(v.l[i]).v]))

(***************************************************************************)
(* The field declarations of models.py                                     *)
(*   ty: the annotation; allow_none: Optional[...] or a None default;      *)
(*   required: no default and not Optional; default: the declared default  *)
(***************************************************************************)
Fld(name, ty, allow_none, required, default) ==
    [name |-> name, ty |-> ty, allow_none |-> allow_none,
     required |-> required, default |-> default]

OptionalFld(name, ty) == Fld(name, ty, TRUE, FALSE, NoneV)
RequiredFld(name, ty) == Fld(name, ty, FALSE, TRUE, Null)
PlaceholderFld(name, ty, text) == Fld(name, ty, FALSE, FALSE, StrV(text))

SessionFields == <<
    OptionalFld("uuid", "str"),
    OptionalFld("created_at", "str"),
    OptionalFld("updated_at", "str"),
    OptionalFld("deleted_at", "str"),
    RequiredFld("session_id", "str"),
    RequiredFld("metadata", "dict") >>

SummaryFields == <<
    PlaceholderFld("uuid", "str", "A uuid is required"),
    PlaceholderFld("created_at", "str", "A created_at is required"),
    PlaceholderFld("content", "str", "Content is required"),
    PlaceholderFld("recent_message_uuid", "str", "A recent_message_uuid is required"),
    PlaceholderFld("token_count", "int", "A token_count is required") >>

(* Variant: token_count declared Optional[str] *)
MessageFieldsTextCount == <<
    PlaceholderFld("role", "str", "A role is required"),
    PlaceholderFld("content", "str", "Content is required"),
    OptionalFld("uuid", "str"),
    OptionalFld("created_at", "str"),
    OptionalFld("token_count", "str"),
    OptionalFld("metadata", "dict") >>

MessageFields == <<
    PlaceholderFld("role", "str", "A role is required"),
    PlaceholderFld("content", "str", "Content is required"),
    OptionalFld("uuid", "str"),
    OptionalFld("created_at", "str"),
    OptionalFld("token_count", "int"),
    OptionalFld("metadata", "dict") >>

(* Variant: messages declared Optional with a None default *)
MemoryFieldsNoneMessages == <<
    OptionalFld("messages", "list_Message"),
    OptionalFld("metadata", "dict"),
    OptionalFld("summary", "Summary"),
    OptionalFld("uuid", "str"),
    OptionalFld("created_at", "str"),
    OptionalFld("token_count", "int") >>

(* messages: Field(default=[]): the default is the list object of cell 0 *)
MemoryFields == <<
    Fld("messages", "list_Message", FALSE, FALSE, Ref(0)),
    OptionalFld("metadata", "dict"),
    OptionalFld("summary", "Summary"),
    OptionalFld("uuid", "str"),
    OptionalFld("created_at", "str"),
    OptionalFld("token_count", "int") >>

MemorySearchPayloadFields == <<
    PlaceholderFld("text", "str", "A text is required"),
    OptionalFld("metadata", "dict") >>

(* Variant: message declared Optional[Message] *)
MemorySearchResultFieldsTypedMessage == <<
    OptionalFld("message", "Message"),
    OptionalFld("metadata", "dict"),
    OptionalFld("summary", "str"),
    OptionalFld("dist", "float") >>

MemorySearchResultFields == <<
    OptionalFld("message", "dict"),
    OptionalFld("metadata", "dict"),
    OptionalFld("summary", "str"),
    OptionalFld("dist", "float") >>

(* Variant: metadata left without a default, as the other Optional fields *)
DocumentFieldsNoneMetadata == <<
    OptionalFld("uuid", "str"),
    OptionalFld("created_at", "str"),
    OptionalFld("updated_at", "str"),
    OptionalFld("deleted_at", "str"),
    OptionalFld("document_id", "str"),
    OptionalFld("content", "str"),
    OptionalFld("metadata", "dict"),
    OptionalFld("embedding", "list_float") >>

(* metadata: Field(default_factory=dict): a new empty dict per instance *)
DocumentFields == <<
    OptionalFld("uuid", "str"),
    OptionalFld("created_at", "str"),
    OptionalFld("updated_at", "str"),
    OptionalFld("deleted_at", "str"),
    OptionalFld("document_id", "str"),
    OptionalFld("content", "str"),
    Fld("metadata", "dict", TRUE, FALSE, DictV(EmptyMap)),
    OptionalFld("embedding", "list_float") >>

DocumentCollectionFields == <<
    OptionalFld("created_at", "str"),
    OptionalFld("updated_at", "str"),
    OptionalFld("deleted_at", "str"),
    RequiredFld("name", "str"),
    OptionalFld("description", "str"),
    Fld("metadata", "dict", TRUE, FALSE, DictV(EmptyMap)),
    OptionalFld("embedding_model_name", "str"),
    OptionalFld("embedding_dimensions", "int"),
    OptionalFld("distance_function", "str"),
    OptionalFld("is_normalized", "bool") >>

Classes == {"Session", "Summary", "Message", "Memory", "MemorySearchPayload",
            "MemorySearchResult", "Document", "DocumentCollection"}

Fields(c) ==
    CASE c = "Session" -> SessionFields
      [] c = "Summary" -> SummaryFields
      [] c = "Message" -> MessageFields
      [] c = "Memory" -> MemoryFields
      [] c = "MemorySearchPayload" -> MemorySearchPayloadFields
      [] c = "MemorySearchResult" -> MemorySearchResultFields
      [] c = "Document" -> DocumentFields
      [] c = "DocumentCollection" -> DocumentCollectionFields

FieldNames(c) == {Fields(c)[i].name : i \in DOMAIN Fields(c)}
FieldOf(c, name) == Fields(c)[CHOOSE i \in DOMAIN Fields(c) : Fields(c)[i].name = name]

(***************************************************************************)
(* Construction: BaseModel.__init__ -> validate_model                      *)
(***************************************************************************)
NextCell(heap) == Cardinality(DOMAIN heap)

(* Variant: the declared default object itself is handed to every instance *)
DefaultCellShared(declared, heap) == declared

(* The cell that holds a missing field's mutable default: pydantic copies  *)
(* the declared default object for each instance, so the cell is a new one *)
DefaultCell(declared, heap) == NextCell(heap)

RECURSIVE Validate(_, _, _)
RECURSIVE RunFields(_, _, _, _)

(* One field of validate_model's loop over the declared fields.            *)
(* st: the values and errors collected so far, and the heap                *)
FieldStep(fld, m, st) ==
    IF fld.name \notin DOMAIN m
    THEN IF fld.required
         THEN [st EXCEPT !.errs = @ \cup {<<fld.name, "missing">>}]
         ELSE IF fld.default.t = "ref"
         THEN LET c == DefaultCell(fld.default.r, st.lists)
              IN [st EXCEPT !.values = @ @@ (fld.name :> Ref(c)),
                            !.lists = @ @@ (c :> st.lists[fld.default.r])]
         ELSE [st EXCEPT !.values = @ @@ (fld.name :> fld.default)]
    ELSE LET r == Validate(fld.ty, fld.allow_none, m[fld.name])
         IN IF ~r.ok
            THEN [st EXCEPT !.errs = @ \cup {<<fld.name, "type">>}]
            ELSE IF fld.ty = "list_Message"
            THEN LET c == NextCell(st.lists)
                 IN [st EXCEPT !.values = @ @@ (fld.name :> Ref(c)),
                               !.lists = @ @@ (c :> r.v.l)]
            ELSE [st EXCEPT !.values = @ @@ (fld.name :> r.v)]

RunFields(c, m, k, st) ==
    IF k > Len(Fields(c)) THEN st
    ELSE RunFields(c, m, k + 1, FieldStep(Fields(c)[k], m, st))

StartState(heap) == [values |-> EmptyMap, errs |-> {}, lists |-> heap]

(* What __init__ returns or raises once every field is done *)
Outcome(c, st) ==
    IF st.errs = {} THEN Model(c, st.values) ELSE ValidationError(c, st.errs)

(* The constructor of c on mapping m, run from start to end on heap `heap`: [res, lists] *)
Construct(c, m, heap) ==
    LET st == RunFields(c, m, 1, StartState(heap))
    IN [res |-> Outcome(c, st), lists |-> st.lists]

(* A nested entity (Message in List[Message], Optional[Summary]): an       *)
(* instance of the class is kept, a dict goes through the constructor      *)
model_validator(c, v) ==
    CASE v.t = "model" /\ v.cls = c -> Ok(v)
      [] v.t = "dict" ->
            LET r == Construct(c, v.d, <<>>).res
            IN IF r.t = "model" THEN Ok(r) ELSE Err
      [] v.t = "list" /\ v.l = <<>> ->
            LET r == Construct(c, EmptyMap, <<>>).res
            IN IF r.t = "model" THEN Ok(r) ELSE Err
      [] OTHER -> Err

(* ModelField.validate: None passes only where the field allows it *)
Validate(ty, allow_none, v) ==
    IF v.t = "none" THEN (IF allow_none THEN Ok(NoneV) ELSE Err)
    ELSE CASE ty = "str" -> str_validator(v)
           [] ty = "int" -> int_validator(v)
           [] ty = "float" -> float_validator(v)
           [] ty = "bool" -> bool_validator(v)
           [] ty = "dict" -> dict_validator(v)
           [] ty = "list_float" -> list_float_validator(v)
           [] ty = "list_Message" ->
                IF v.t # "list" THEN Err
                ELSE IF \E i \in DOMAIN v.l : ~model_validator("Message", v.l[i]).ok
                THEN Err
                ELSE Ok(ListV([i \in DOMAIN v.l |-> model_validator("Message", v.l[i]).v]))
           [] ty \in Classes -> model_validator(ty, v)

(***************************************************************************)
(* Serialization: BaseModel.dict(), which to_dict() returns                *)
(***************************************************************************)
RECURSIVE dict(_, _)

(* Every entity, list and dict is rebuilt, down to the scalars *)
dict(v, heap) ==
    CASE v.t = "model" -> DictV([k \in DOMAIN v.f |-> dict(v.f[k], heap)])
      [] v.t = "ref" -> ListV([i \in DOMAIN heap[v.r] |-> dict(heap[v.r][i], heap)])
      [] v.t = "list" -> ListV([i \in DOMAIN v.l |-> dict(v.l[i], heap)])
      [] v.t = "dict" -> DictV([k \in DOMAIN v.d |-> dict(v.d[k], heap)])
      [] OTHER -> v

(* Variant: only the instance itself is turned into a mapping *)
to_dict_shallow(self, heap) ==
    DictV([k \in DOMAIN self.f |->
              IF self.f[k].t = "ref" THEN ListV(heap[self.f[k].r]) ELSE self.f[k]])

to_dict(self, heap) == dict(self, heap)

(* The instance as a reader sees it: references replaced by the lists *)
View(v, heap) ==
    IF v.t = "model"
    THEN Model(v.cls, [k \in DOMAIN v.f |->
                          IF v.f[k].t = "ref" THEN ListV(heap[v.f[k].r]) ELSE v.f[k]])
    ELSE v

(***************************************************************************)
(* Inputs: keyword mappings as a decoded JSON body gives them              *)
(***************************************************************************)
UserMessage == [role |-> StrV("user"), content |-> StrV("hi")]
AssistantMessage ==
    [role |-> StrV("assistant"), content |-> StrV("yo"), token_count |-> IntV(5)]
FullSummary ==
    [uuid |-> StrV("u1"), created_at |-> StrV("t1"), content |-> StrV("sum"),
     recent_message_uuid |-> StrV("u2"), token_count |-> IntV(5)]

SeqsUpTo(S, n) == UNION {[1..k -> S] : k \in 0..n}

RECURSIVE SetToSeq(_)
SetToSeq(S) ==
    IF S = {} THEN <<>>
    ELSE LET x == CHOOSE y \in S : TRUE IN <<x>> \o SetToSeq(S \ {x})

(* The str fields that are also offered a number, which pydantic converts *)
ConvertedNames == {"session_id", "content", "text", "summary", "name"}

(* For each field: values of the declared type, values pydantic converts,  *)
(* values it rejects, and None                                             *)
Pool(fld) ==
    CASE fld.ty = "str" ->
            IF fld.name \in ConvertedNames THEN <<StrV("s1"), IntV(7), NoneV>>
            ELSE <<StrV("s1"), NoneV>>
      [] fld.ty = "int" -> <<IntV(5), StrV("7"), StrV("abc"), NoneV>>
      [] fld.ty = "float" -> <<FloatV(12), IntV(1), StrV("abc"), NoneV>>
      [] fld.ty = "bool" -> <<BoolV(TRUE), StrV("abc"), NoneV>>
      [] fld.ty \in {"dict", "Message"} ->
            <<DictV(EmptyMap), DictV(UserMessage), StrV("abc"), NoneV>>
      [] fld.ty = "list_float" -> <<ListV(<<FloatV(12), FloatV(50)>>),
                                    ListV(<<IntV(1), StrV("7")>>), StrV("abc"), NoneV>>
      [] fld.ty = "list_Message" ->
            SetToSeq({ListV(l) : l \in SeqsUpTo({DictV(UserMessage), DictV(AssistantMessage)},
                                                MaxMsgs)})
            \o <<StrV("abc"), NoneV>>
      [] fld.ty = "Summary" -> <<DictV(FullSummary), DictV(EmptyMap), StrV("abc"), NoneV>>

PoolOf(c, name) == Pool(FieldOf(c, name))

KeySets(c) == {T \in SUBSET FieldNames(c) : Cardinality(T) <= MaxKeys}

IndexOf(c, name) == CHOOSE i \in DOMAIN Fields(c) : Fields(c)[i].name = name
Before(c, S, name) == {j \in S : IndexOf(c, j) < IndexOf(c, name)}

(* The number of mappings over the keys S *)
RECURSIVE PoolProduct(_, _)
PoolProduct(c, S) ==
    IF S = {} THEN 1
    ELSE LET k == CHOOSE x \in S : TRUE
         IN Len(PoolOf(c, k)) * PoolProduct(c, S \ {k})

(* The n-th mapping over the keys S: n read as digits, one per key *)
NthInput(c, S, n) ==
    [k \in S |-> LET pool == PoolOf(c, k)
                 IN pool[((n \div PoolProduct(c, Before(c, S, k))) % Len(pool)) + 1]]

(* input is a mapping over at most MaxKeys field names, each value drawn   *)
(* from the pool of its field                                              *)
IsInput(c, m) ==
    \E S \in KeySets(c) :
        \E n \in 0..(PoolProduct(c, S) - 1) : m = NthInput(c, S, n)

(***************************************************************************)
(* A single caller: construct, serialize, construct again                  *)
(***************************************************************************)
Callers == {1, 2}
Idle == [pc |-> "idle"]
InitHeap == (0 :> <<>>)

Init ==
    /\ lists = InitHeap
    /\ cls \in Classes
    /\ IsInput(cls, input)
    /\ pc = "start"
    /\ inst = Null
    /\ wire = Null
    /\ back = Null
    /\ call = [c \in Callers |-> Idle]
    /\ insts = <<>>

DoConstruct ==
    /\ pc = "start"
    /\ LET r == Construct(cls, input, lists)
       IN /\ inst' = r.res
          /\ lists' = r.lists
          /\ pc' = IF r.res.t = "model" THEN "built" ELSE "failed"
    /\ UNCHANGED <<cls, input, wire, back, call, insts>>

DoToDict ==
    /\ pc = "built"
    /\ wire' = to_dict(inst, lists)
    /\ pc' = "dumped"
    /\ UNCHANGED <<lists, cls, input, inst, back, call, insts>>

DoReconstruct ==
    /\ pc = "dumped"
    /\ LET r == Construct(cls, wire.d, lists)
       IN /\ back' = r.res
          /\ lists' = r.lists
    /\ pc' = "rebuilt"
    /\ UNCHANGED <<cls, input, inst, wire, call, insts>>

Next == DoConstruct \/ DoToDict \/ DoReconstruct

Spec == Init /\ [][Next]_vars

(***************************************************************************)
(* Concurrent callers: each runs a constructor field by field; finished    *)
(* instances are live objects whose attributes and lists can be written    *)
(***************************************************************************)
CallerInputs ==
    {<<"Memory", EmptyMap>>,
     <<"Memory", [messages |-> ListV(<<DictV(AssistantMessage)>>)]>>,
     <<"Memory", [token_count |-> StrV("abc")]>>,
     <<"Message", UserMessage>>,
     <<"Document", EmptyMap>>}

Running == {c \in Callers : call[c].pc = "run"}

InitCallers ==
    /\ lists = InitHeap
    /\ cls = "Memory"
    /\ input = EmptyMap
    /\ pc = "off"
    /\ inst = Null
    /\ wire = Null
    /\ back = Null
    /\ call = [c \in Callers |-> Idle]
    /\ insts = <<>>

(* A caller enters c(m): validate_model starts with no values and no errors *)
Begin(c) ==
    /\ call[c].pc # "run"
    /\ Len(insts) + Cardinality(Running) < MaxInsts
    /\ NextCell(lists) + Cardinality(Running) <= MaxInsts
    /\ \E ci \in CallerInputs :
          call' = [call EXCEPT ![c] =
                      [pc |-> "run", cls |-> ci[1], input |-> ci[2], k |-> 1,
                       values |-> EmptyMap, errs |-> {}]]
    /\ UNCHANGED <<lists, cls, input, pc, inst, wire, back, insts>>

(* The caller handles its next field *)
Step(c) ==
    /\ call[c].pc = "run"
    /\ call[c].k <= Len(Fields(call[c].cls))
    /\ LET st == FieldStep(Fields(call[c].cls)[call[c].k], call[c].input,
                           [values |-> call[c].values, errs |-> call[c].errs,
                            lists |-> lists])
       IN /\ call' = [call EXCEPT ![c].k = @ + 1,
                                  ![c].values = st.values,
                                  ![c].errs = st.errs]
          /\ lists' = st.lists
    /\ UNCHANGED <<cls, input, pc, inst, wire, back, insts>>

(* The constructor returns the instance, or raises the ValidationError;    *)
(* ret is the instance as the caller sees it on return                     *)
Finish(c) ==
    /\ call[c].pc = "run"
    /\ call[c].k > Len(Fields(call[c].cls))
    /\ LET res == Outcome(call[c].cls, [values |-> call[c].values, errs |-> call[c].errs])
       IN /\ call' = [call EXCEPT ![c] =
                         [pc |-> "done", cls |-> call[c].cls, input |-> call[c].input,
                          ret |-> View(res, lists)]]
          /\ insts' = IF res.t = "model" THEN Append(insts, res) ELSE insts
    /\ UNCHANGED <<lists, cls, input, pc, inst, wire, back>>

(* memory.messages.append(Message(role=..., content=...)) on a live Memory *)
AppendMessage(i) ==
    /\ i \in DOMAIN insts
    /\ insts[i].cls = "Memory"
    /\ Len(lists[insts[i].f["messages"].r]) < MaxMsgs
    /\ lists' = [lists EXCEPT ![insts[i].f["messages"].r] =
                    Append(@, Construct("Message", UserMessage, lists).res)]
    /\ UNCHANGED <<cls, input, pc, inst, wire, back, call, insts>>

AssignNames == {"role", "uuid"}
AssignValues == {StrV("s2")}

(* instance.name = v: BaseModel.__setattr__ stores v in the named field *)
SetAttr(i) ==
    /\ i \in DOMAIN insts
    /\ \E name \in AssignNames \cap FieldNames(insts[i].cls), v \in AssignValues :
          insts' = [insts EXCEPT ![i].f[name] = v]
    /\ UNCHANGED <<lists, cls, input, pc, inst, wire, back, call>>

NextCallers ==
    \/ \E c \in Callers : Begin(c) \/ Step(c) \/ Finish(c)
    \/ \E i \in 1..MaxInsts : AppendMessage(i) \/ SetAttr(i)

SpecCallers == InitCallers /\ [][NextCallers]_vars

(***************************************************************************)
(* Properties of construction and serialization                            *)
(***************************************************************************)
Constructed == pc \in {"built", "dumped", "rebuilt"}
Returned == pc \in {"built", "failed", "dumped", "rebuilt"}

(* v is a value of the annotation of fld, with no conversion needed *)
RECURSIVE HasDeclaredType(_, _)
HasDeclaredType(fld, v) ==
    \/ v.t = "none" /\ fld.allow_none
    \/ CASE fld.ty = "str" -> v.t = "str"
         [] fld.ty = "int" -> v.t = "int"
         [] fld.ty = "float" -> v.t = "float"
         [] fld.ty = "bool" -> v.t = "bool"
         [] fld.ty = "dict" -> v.t = "dict"
         [] fld.ty = "list_float" ->
                v.t = "list" /\ \A i \in DOMAIN v.l : v.l[i].t \in {"float", "int"}
         [] fld.ty = "list_Message" ->
                /\ v.t = "list"
                /\ \A i \in DOMAIN v.l :
                      /\ v.l[i].t = "dict"
                      /\ \A k \in DOMAIN v.l[i].d \cap FieldNames("Message") :
                            HasDeclaredType(FieldOf("Message", k), v.l[i].d[k])
         [] fld.ty \in Classes ->
                /\ v.t = "dict"
                /\ \A k \in DOMAIN v.d \cap FieldNames(fld.ty) :
                      HasDeclaredType(FieldOf(fld.ty, k), v.d[k])

(* C1: Round-trip law: whenever construction accepted the input, constructing
   the same entity type from the serialized instance succeeds and yields an
   instance equal to the first in every field. *)
RoundTripLaw ==
    pc = "rebuilt" => /\ back.t = "model"
                      /\ View(back, lists) = View(inst, lists)

(* The fields the data-model table lists as required *)
TableRequired(c) ==
    CASE c = "Session" -> {"session_id", "metadata"}
      [] c = "Summary" -> {"uuid", "created_at", "content", "recent_message_uuid",
                           "token_count"}
      [] c = "Message" -> {"role", "content"}
      [] c = "MemorySearchPayload" -> {"text"}
      [] c = "DocumentCollection" -> {"name"}
      [] OTHER -> {}

(* C2: Required-field law: a mapping that lacks a field the table lists as
   required is rejected with a missing-field error for that field, and no
   instance holds a field's declared placeholder text. *)
RequiredFieldLaw ==
    Returned =>
        /\ \A f \in TableRequired(cls) \ DOMAIN input :
              inst.t = "error" /\ <<f, "missing">> \in inst.errs
        /\ inst.t = "model" =>
              \A f \in TableRequired(cls) : inst.f[f] # FieldOf(cls, f).default

(* The fields the TypeMismatch law names, and the type it gives each:
   token_count an integer (optional on Message and Memory), embedding an
   optional sequence of numbers *)
TypedFields(c) ==
    CASE c \in {"Message", "Memory", "Summary"} -> {"token_count"}
      [] c = "Document" -> {"embedding"}
      [] OTHER -> {}

TypedAs(c, f) ==
    IF f = "token_count" THEN Fld(f, "int", c # "Summary", FALSE, Null)
    ELSE Fld(f, "list_float", TRUE, FALSE, Null)

(* C3 as stated: a value that does not have the field's declared type makes
   construction fail with an error for that field; it is never accepted and
   never converted. *)
TypeMismatchLaw ==
    Returned =>
        \A f \in TypedFields(cls) \cap DOMAIN input :
            ~HasDeclaredType(TypedAs(cls, f), input[f]) =>
                inst.t = "error" /\ <<f, "type">> \in inst.errs

(* What Python's int() and float() accept among the values of the inputs *)
NumberLike(v) == v.t \in {"int", "float", "bool"} \/ (v.t = "str" /\ IsIntText(v.s))
Convertible(fld, v) ==
    CASE fld.ty = "int" -> NumberLike(v)
      [] fld.ty = "list_float" -> v.t = "list" /\ \A i \in DOMAIN v.l : NumberLike(v.l[i])
      [] OTHER -> FALSE

(* C3 amended: a value that does not have the declared type and cannot be
   converted to it makes construction fail with an error for that field; a
   value that can be converted (the text "7" for token_count) raises no error
   for the field and is stored converted to the declared type, never as given. *)
TypeMismatchUnlessConvertible ==
    Returned =>
        \A f \in TypedFields(cls) \cap DOMAIN input :
            ~HasDeclaredType(TypedAs(cls, f), input[f]) =>
                IF Convertible(TypedAs(cls, f), input[f])
                THEN /\ inst.t = "error" => <<f, "type">> \notin inst.errs
                     /\ inst.t = "model" =>
                           /\ HasDeclaredType(TypedAs(cls, f), inst.f[f])
                           /\ inst.f[f] # input[f]
                ELSE inst.t = "error" /\ <<f, "type">> \in inst.errs

TypeMismatchWitness ==
    /\ cls = "Message" /\ pc = "built"
    /\ "token_count" \in DOMAIN input /\ input["token_count"] = StrV("7")
    /\ inst.f["token_count"] = IntV(7)

(* C6: Default-fill law: a Memory built from a mapping without the key
   messages has the empty sequence as messages, never None; the construction
   succeeds whenever the values the mapping carries have their declared types,
   and an error, if any, names only keys the mapping carries. *)
DefaultFillLaw ==
    (cls = "Memory" /\ "messages" \notin DOMAIN input /\ Returned) =>
        /\ (\A k \in DOMAIN input : HasDeclaredType(FieldOf(cls, k), input[k]))
              => inst.t = "model"
        /\ inst.t = "error" => \A e \in inst.errs : e[1] \in DOMAIN input
        /\ inst.t = "model" => View(inst, lists).f["messages"] = ListV(<<>>)

DefaultFillWitness ==
    /\ cls = "Memory" /\ pc = "built"
    /\ DOMAIN input = {"metadata", "summary", "uuid", "token_count"}
    /\ View(inst, lists).f["messages"] = ListV(<<>>)

(* C7: Metadata default law: a Document or DocumentCollection built from a
   mapping without the key metadata has the empty mapping as metadata, and its
   serialization carries the key metadata with the empty mapping as value. *)
MetadataDefaultLaw ==
    (cls \in {"Document", "DocumentCollection"} /\ "metadata" \notin DOMAIN input) =>
        /\ Constructed => inst.f["metadata"] = DictV(EmptyMap)
        /\ pc \in {"dumped", "rebuilt"} =>
              /\ "metadata" \in DOMAIN wire.d
              /\ wire.d["metadata"] = DictV(EmptyMap)

MetadataDefaultWitness ==
    /\ cls = "Document" /\ pc = "dumped"
    /\ "metadata" \notin DOMAIN input
    /\ wire.d["metadata"] = DictV(EmptyMap)

(* C8: Ordering law: serializing a Memory and constructing a Memory from the
   result yields the same messages in the same order, none dropped and none
   deduplicated. *)
OrderingLaw ==
    (cls = "Memory" /\ pc = "rebuilt") =>
        /\ back.t = "model"
        /\ View(back, lists).f["messages"] = View(inst, lists).f["messages"]

RECURSIVE NoEntity(_)
NoEntity(v) ==
    CASE v.t \in {"model", "ref"} -> FALSE
      [] v.t = "list" -> \A i \in DOMAIN v.l : NoEntity(v.l[i])
      [] v.t = "dict" -> \A k \in DOMAIN v.d : NoEntity(v.d[k])
      [] OTHER -> TRUE

(* C9: Recursive flattening: to_dict of a Memory returns a mapping in which
   every element of messages is a plain mapping of the Message fields and
   summary is None or a plain mapping of the Summary fields; no value at any
   depth is an entity instance. *)
RecursiveFlattening ==
    (cls = "Memory" /\ pc \in {"dumped", "rebuilt"}) =>
        /\ NoEntity(wire)
        /\ wire.d["messages"].t = "list"
        /\ \A i \in DOMAIN wire.d["messages"].l :
              /\ wire.d["messages"].l[i].t = "dict"
              /\ DOMAIN wire.d["messages"].l[i].d = FieldNames("Message")
        /\ \/ wire.d["summary"] = NoneV
           \/ /\ wire.d["summary"].t = "dict"
              /\ DOMAIN wire.d["summary"].d = FieldNames("Summary")

RecursiveFlatteningWitness ==
    /\ cls = "Memory" /\ pc = "dumped"
    /\ Len(wire.d["messages"].l) = 2
    /\ wire.d["summary"].t = "dict"

(* C10: Loose search results: a MemorySearchResult is built from every mapping
   whose values have their declared types, message being any mapping; a key
   the mapping lacks gives None and a key it carries keeps the given value,
   the message mapping included, with no Message field added to it. *)
LooseSearchResult ==
    (cls = "MemorySearchResult" /\ Returned) =>
        /\ (\A k \in DOMAIN input : HasDeclaredType(FieldOf(cls, k), input[k]))
              => inst.t = "model"
        /\ inst.t = "model" =>
              \A k \in FieldNames(cls) :
                  IF k \notin DOMAIN input THEN inst.f[k] = NoneV
                  ELSE HasDeclaredType(FieldOf(cls, k), input[k]) => inst.f[k] = input[k]

LooseSearchResultWitness ==
    /\ cls = "MemorySearchResult" /\ pc = "built"
    /\ input = [message |-> DictV(UserMessage), dist |-> FloatV(12)]
    /\ inst.f["message"] = DictV(UserMessage)
    /\ inst.f["dist"] = FloatV(12)
    /\ inst.f["summary"] = NoneV /\ inst.f["metadata"] = NoneV

(* C4: Immutability: no step changes the field values of an instance that
   construction has returned. *)
Immutability ==
    [][\A i \in DOMAIN insts : View(insts[i], lists)' = View(insts[i], lists)]_vars

(* What the constructor of c yields on m when no other call runs *)
Alone(c, m) ==
    LET r == Construct(c, m, InitHeap) IN View(r.res, r.lists)

MemoryCells == {insts[i].f["messages"].r : i \in {j \in DOMAIN insts : insts[j].cls = "Memory"}}

(* C5: Construction is pure under any interleaving: every call returns what
   it returns when run alone; the declared default of Memory.messages stays
   the empty sequence; no two Memory instances share the list of their
   messages, so that a message added to one changes no other. *)
ConstructionIsolated ==
    /\ \A c \in Callers :
          call[c].pc = "done" => call[c].ret = Alone(call[c].cls, call[c].input)
    /\ lists[0] = <<>>
    /\ 0 \notin MemoryCells
    /\ \A i, j \in DOMAIN insts :
          (i # j /\ insts[i].cls = "Memory" /\ insts[j].cls = "Memory") =>
              insts[i].f["messages"].r # insts[j].f["messages"].r

ConstructionIsolatedWitness ==
    /\ Len(insts) = 2
    /\ \A c \in Callers : /\ call[c].pc = "done"
                          /\ call[c].cls = "Memory"
                          /\ call[c].input = EmptyMap
    /\ Len(lists[insts[1].f["messages"].r]) = 1
    /\ lists[insts[2].f["messages"].r] = <<>>

====
